---- MODULE Spec2Model ----
(***************************************************************************)
(* Model of scripts/security-report.py: the four scanner result files are  *)
(* loaded, aggregated into one report, scored, graded and written to       *)
(* docs/badges/security-results.json.                                      *)
(* scripts/security-badge.py renders that report as two svg badges, and    *)
(* scripts/coverage-badge.py renders a coverage percentage the same way.   *)
(*                                                                         *)
(* A file on disk is a record [t, n, ft, fn, more]:                        *)
(*   t    "absent", "malformed", or the JSON type of the top-level value   *)
(*        ("null", "bool", "num", "str", "arr", "obj");                    *)
(*   n    the value of a bool/num (false = 0, true = 1), the length of a   *)
(*        str/arr; 0 otherwise;                                            *)
(*   ft   for an object, the JSON type of the tool's extraction field, or  *)
(*        "missing" when the object has no such key;                       *)
(*   fn   the value / length / key count of that field;                    *)
(*   more for an object, whether it also has the keys "passed" and         *)
(*        "skipped" (with the values PassedValue and SkippedValue).        *)
(* A Python value read out of an object is a record [t, n].                *)
(* Numbers are integers: fractional JSON numbers are outside the model.    *)
(***************************************************************************)
EXTENDS Integers, Sequences, FiniteSets, TLC

\* inputs       the four scanner result files
\* loaded       the four payloads the last run of the report script read
\* resultsKind  what docs/badges/security-results.json is: "absent", "malformed",
\*              "empty" (the object {}) or "report"
\* resultsFile  <<the report in that file>>, or <<>> when it holds none
\* exit         how the last run of the report script ended
\* badges       docs/badges/security-score.svg and security-issues.svg
\* clock        the time datetime.now() reads
\* pure         arguments and results of functions applied on their own
\* reruns       history: how many report runs in a row have written the report
\*              from the payloads now on disk (counted up to MaxReruns)
VARIABLES inputs, loaded, resultsKind, resultsFile, exit, badges, clock, pure, reruns

vars == <<inputs, loaded, resultsKind, resultsFile, exit, badges, clock, pure, reruns>>

\* ---------------------------------------------------------------- bounds
\* largest number stored in a numeric field of a result file
MaxCount == 3
\* largest length of a list stored in a field of a result file
MaxLen == 3
\* largest issue count / score handed to the scoring functions on their own
MaxIssues == 12
MaxScore == 100
\* the "passed" and "skipped" counts of a checkov file that has them
PassedValue == 48
SkippedValue == 0

\* ---------------------------------------------------------------- tools
ToolOrder == <<"checkov", "trivy", "gosec", "semgrep">>

Tools == {ToolOrder[i] : i \in 1..Len(ToolOrder)}

\* ---------------------------------------------------------------- values
PyVal(t, n) == [t |-> t, n |-> n]

FileVal(t, n, ft, fn, more) == [t |-> t, n |-> n, ft |-> ft, fn |-> fn, more |-> more]

\* Python's None (also what JSON null parses to)
None == FileVal("null", 0, "missing", 0, FALSE)

\* json.load of a file that exists, or None
load_json_file(f) == IF f.t \in {"absent", "malformed"} THEN None ELSE f

\* Python truth value of a loaded payload (`if checkov_results:`)
Truthy(v) ==
    CASE v.t = "null" -> FALSE
      [] v.t \in {"bool", "num", "str", "arr"} -> v.n # 0
      [] v.t = "obj" -> v.ft # "missing" \/ v.more
      [] OTHER -> FALSE

\* only a dict has .get; anything else raises AttributeError
HasGet(v) == v.t = "obj"

\* dict.get(<extraction field>, default)
GetField(v, default) == IF v.ft = "missing" THEN default ELSE PyVal(v.ft, v.fn)

\* dict.get("passed", 0) / dict.get("skipped", 0)
GetPassed(v) == IF v.more THEN PyVal("num", PassedValue) ELSE PyVal("num", 0)

GetSkipped(v) == IF v.more THEN PyVal("num", SkippedValue) ELSE PyVal("num", 0)

\* len(x) is defined for str, list and dict; TypeError otherwise
HasLen(x) == x.t \in {"str", "arr", "obj"}

\* int += x is defined for int and bool; TypeError otherwise
IsNumber(x) == x.t \in {"num", "bool"}

\* ---------------------------------------------------------------- report
ToolEntry(status, issues, detail) ==
    [status |-> status, issues_found |-> issues, detail |-> detail]

FailedEntry == ToolEntry("failed", 0, <<>>)

InitialReport ==
    [timestamp |-> 0,
     summary |-> [total_issues |-> 0, critical_issues |-> 0, high_issues |-> 0,
                  medium_issues |-> 0, low_issues |-> 0, info_issues |-> 0],
     tools |-> [t \in Tools |-> ToolEntry("unset", 0, <<>>)],
     recommendations |-> <<>>,
     security_score |-> 0,
     security_grade |-> "",
     raised |-> FALSE]

Raise(r) == [r EXCEPT !.raised = TRUE]

AddTotal(r, k) == [r EXCEPT !.summary.total_issues = @ + k]

\* checkov's findings counted as high
ProcessCheckovAsHigh(r, v) ==
    IF Truthy(v)
    THEN IF ~HasGet(v) THEN Raise(r)
         ELSE LET checkov_issues == GetField(v, PyVal("num", 0))
                  entry == ToolEntry("completed", checkov_issues.n,
                                     <<GetPassed(v), GetSkipped(v)>>)
              IN  IF ~IsNumber(checkov_issues) THEN Raise(r)
                  ELSE [AddTotal(r, checkov_issues.n) EXCEPT
                            !.tools["checkov"] = entry,
                            !.summary.high_issues = @ + checkov_issues.n]
    ELSE [r EXCEPT !.tools["checkov"] = FailedEntry]

ProcessCheckov(r, v) ==
    IF Truthy(v)
    THEN IF ~HasGet(v) THEN Raise(r)
         ELSE LET checkov_issues == GetField(v, PyVal("num", 0))
                  entry == ToolEntry("completed", checkov_issues.n,
                                     <<GetPassed(v), GetSkipped(v)>>)
              IN  IF ~IsNumber(checkov_issues) THEN Raise(r)
                  ELSE [AddTotal(r, checkov_issues.n) EXCEPT
                            !.tools["checkov"] = entry,
                            !.summary.medium_issues = @ + checkov_issues.n]
    ELSE [r EXCEPT !.tools["checkov"] = FailedEntry]

\* a failed trivy scan counted as one high finding
ProcessTrivyFailedCounts(r, v) ==
    IF Truthy(v)
    THEN IF ~HasGet(v) THEN Raise(r)
         ELSE LET vulnerabilities == GetField(v, PyVal("arr", 0))
              IN  IF ~HasLen(vulnerabilities) THEN Raise(r)
                  ELSE [AddTotal(r, vulnerabilities.n) EXCEPT
                            !.tools["trivy"] = ToolEntry("completed", vulnerabilities.n,
                                                         <<vulnerabilities>>),
                            !.summary.high_issues = @ + vulnerabilities.n]
    ELSE [AddTotal(r, 1) EXCEPT !.tools["trivy"] = FailedEntry,
                                !.summary.high_issues = @ + 1]

ProcessTrivy(r, v) ==
    IF Truthy(v)
    THEN IF ~HasGet(v) THEN Raise(r)
         ELSE LET vulnerabilities == GetField(v, PyVal("arr", 0))
              IN  IF ~HasLen(vulnerabilities) THEN Raise(r)
                  ELSE [AddTotal(r, vulnerabilities.n) EXCEPT
                            !.tools["trivy"] = ToolEntry("completed", vulnerabilities.n,
                                                         <<vulnerabilities>>),
                            !.summary.high_issues = @ + vulnerabilities.n]
    ELSE [r EXCEPT !.tools["trivy"] = FailedEntry]

\* gosec's count assigned to the medium bucket instead of added to it
ProcessGosecAssign(r, v) ==
    IF Truthy(v)
    THEN IF ~HasGet(v) THEN Raise(r)
         ELSE LET issues == GetField(v, PyVal("arr", 0))
              IN  IF ~HasLen(issues) THEN Raise(r)
                  ELSE [AddTotal(r, issues.n) EXCEPT
                            !.tools["gosec"] = ToolEntry("completed", issues.n, <<issues>>),
                            !.summary.medium_issues = issues.n]
    ELSE [r EXCEPT !.tools["gosec"] = FailedEntry]

ProcessGosec(r, v) ==
    IF Truthy(v)
    THEN IF ~HasGet(v) THEN Raise(r)
         ELSE LET issues == GetField(v, PyVal("arr", 0))
              IN  IF ~HasLen(issues) THEN Raise(r)
                  ELSE [AddTotal(r, issues.n) EXCEPT
                            !.tools["gosec"] = ToolEntry("completed", issues.n, <<issues>>),
                            !.summary.medium_issues = @ + issues.n]
    ELSE [r EXCEPT !.tools["gosec"] = FailedEntry]

\* semgrep's findings added to the total only
ProcessSemgrepNoBucket(r, v) ==
    IF Truthy(v)
    THEN IF ~HasGet(v) THEN Raise(r)
         ELSE LET results == GetField(v, PyVal("arr", 0))
              IN  IF ~HasLen(results) THEN Raise(r)
                  ELSE [AddTotal(r, results.n) EXCEPT
                            !.tools["semgrep"] = ToolEntry("completed", results.n, <<results>>)]
    ELSE [r EXCEPT !.tools["semgrep"] = FailedEntry]

ProcessSemgrep(r, v) ==
    IF Truthy(v)
    THEN IF ~HasGet(v) THEN Raise(r)
         ELSE LET results == GetField(v, PyVal("arr", 0))
              IN  IF ~HasLen(results) THEN Raise(r)
                  ELSE [AddTotal(r, results.n) EXCEPT
                            !.tools["semgrep"] = ToolEntry("completed", results.n, <<results>>),
                            !.summary.low_issues = @ + results.n]
    ELSE [r EXCEPT !.tools["semgrep"] = FailedEntry]

\* one tool's block of generate_security_report; an exception ends the run
ProcessTool(tool, r, v) ==
    IF r.raised THEN r
    ELSE CASE tool = "checkov" -> ProcessCheckov(r, v)
           [] tool = "trivy"   -> ProcessTrivy(r, v)
           [] tool = "gosec"   -> ProcessGosec(r, v)
           [] tool = "semgrep" -> ProcessSemgrep(r, v)

\* the four blocks, run in the given order from the i-th on
RECURSIVE ProcessFrom(_, _, _, _)
ProcessFrom(order, i, r, files) ==
    IF i > Len(order) THEN r
    ELSE ProcessFrom(order, i + 1,
                     ProcessTool(order[i], r, load_json_file(files[order[i]])), files)

CriticalText == "<U+1F6A8> Critical issues found - immediate action required"
HighText == "<U+26A0><U+FE0F> High priority issues found - address within 24 hours"
MediumText == "<U+1F4CB> Medium priority issues found - address within 1 week"
LowText == "<U+2139><U+FE0F> Low priority issues found - address when convenient"

\* the low advisory appended before the medium one
RecommendationsLowFirst(s) ==
    (IF s.critical_issues > 0 THEN <<CriticalText>> ELSE <<>>)
    \o (IF s.high_issues > 0 THEN <<HighText>> ELSE <<>>)
    \o (IF s.low_issues > 0 THEN <<LowText>> ELSE <<>>)
    \o (IF s.medium_issues > 0 THEN <<MediumText>> ELSE <<>>)

Recommendations(s) ==
    (IF s.critical_issues > 0 THEN <<CriticalText>> ELSE <<>>)
    \o (IF s.high_issues > 0 THEN <<HighText>> ELSE <<>>)
    \o (IF s.medium_issues > 0 THEN <<MediumText>> ELSE <<>>)
    \o (IF s.low_issues > 0 THEN <<LowText>> ELSE <<>>)

\* the 1..2 band closed one short
SecurityScoreShortBand(total_issues) ==
    IF total_issues = 0 THEN 100
    ELSE IF total_issues < 2 THEN 95
    ELSE IF total_issues <= 5 THEN 85
    ELSE IF total_issues <= 10 THEN 70
    ELSE 50

\* the scores of two bands exchanged
SecurityScoreSwapped(total_issues) ==
    IF total_issues = 0 THEN 100
    ELSE IF total_issues <= 2 THEN 95
    ELSE IF total_issues <= 5 THEN 70
    ELSE IF total_issues <= 10 THEN 85
    ELSE 50

SecurityScore(total_issues) ==
    IF total_issues = 0 THEN 100
    ELSE IF total_issues <= 2 THEN 95
    ELSE IF total_issues <= 5 THEN 85
    ELSE IF total_issues <= 10 THEN 70
    ELSE 50

\* the top band entered only above 95
get_security_grade_strict(score) ==
    IF score > 95 THEN "A+"
    ELSE IF score >= 90 THEN "A"
    ELSE IF score >= 80 THEN "B"
    ELSE IF score >= 70 THEN "C"
    ELSE IF score >= 60 THEN "D"
    ELSE "F"

get_security_grade(score) ==
    IF score >= 95 THEN "A+"
    ELSE IF score >= 90 THEN "A"
    ELSE IF score >= 80 THEN "B"
    ELSE IF score >= 70 THEN "C"
    ELSE IF score >= 60 THEN "D"
    ELSE "F"

\* recommendations, score and grade of an aggregated report
Finish(r) ==
    IF r.raised THEN r
    ELSE LET security_score == SecurityScore(r.summary.total_issues)
         IN  [r EXCEPT !.recommendations = Recommendations(r.summary),
                       !.security_score = security_score,
                       !.security_grade = get_security_grade(security_score)]

\* the report built when the tool blocks run in `order`
ReportInOrder(order, files) == Finish(ProcessFrom(order, 1, InitialReport, files))

generate_security_report(files) == ReportInOrder(ToolOrder, files)

\* ---------------------------------------------------------------- inputs
\* a top-level value that is no object: 0, 1, [] or a one-element list (false, true,
\* "" and a non-empty string behave as 0, 1, [] and the list do)
TopScalars ==
    {FileVal(t, n, "missing", 0, FALSE) : t \in {"num", "arr"}, n \in 0..1}

NoPayload ==
    {FileVal(t, 0, "missing", 0, FALSE) : t \in {"absent", "malformed", "null"}}

Obj(ft, fn, more) == FileVal("obj", 0, ft, fn, more)

\* what checkov-results.json may hold: no payload, a non-object, an object without
\* `failed`, with a numeric `failed`, or with `failed` true, null or a string
CheckovInputs ==
    NoPayload \cup TopScalars
    \cup {Obj("missing", 0, m) : m \in BOOLEAN}
    \cup {Obj("num", k, m) : k \in 0..MaxCount, m \in BOOLEAN}
    \cup {Obj("bool", 1, FALSE), Obj("null", 0, FALSE), Obj("str", 1, FALSE)}

\* what trivy-, gosec- and semgrep-results.json may hold: no payload, a non-object,
\* an object without the list field, with a list, or with a string, a number or
\* null in its place
ListInputs ==
    NoPayload \cup TopScalars
    \cup {Obj("missing", 0, m) : m \in BOOLEAN}
    \cup {Obj("arr", k, FALSE) : k \in 0..MaxLen}
    \cup {Obj("str", 1, FALSE), Obj("num", 1, FALSE), Obj("null", 0, FALSE)}

InputsOf(tool) == IF tool = "checkov" THEN CheckovInputs ELSE ListInputs

\* ---------------------------------------------------------------- machine
PureIdle == [n1 |-> 0, n2 |-> 0, score |-> 0, s1 |-> 0, s2 |-> 0, grade |-> "", pc |-> "idle"]

\* a badge file: its svg attributes, or no file
Svg(label, message, color, text_width) ==
    [exists |-> TRUE, label |-> label, message |-> message, color |-> color,
     text_width |-> text_width, width |-> text_width + 80,
     text_x |-> 60 + (text_width \div 2)]

NoSvg ==
    [exists |-> FALSE, label |-> "", message |-> "", color |-> "",
     text_width |-> 0, width |-> 0, text_x |-> 0]

NoBadges == [score |-> NoSvg, issues |-> NoSvg]

\* the four calls of load_json_file
LoadAll(files) == [t \in Tools |-> load_json_file(files[t])]

NothingOnDisk ==
    /\ loaded = [t \in Tools |-> None]
    /\ resultsKind = "absent"
    /\ resultsFile = <<>>
    /\ exit = "none"
    /\ badges = NoBadges
    /\ clock = 0
    /\ reruns = 0

Init ==
    /\ inputs \in [Tools -> CheckovInputs \cup ListInputs]
    /\ \A t \in Tools : inputs[t] \in InputsOf(t)
    /\ NothingOnDisk
    /\ pure = PureIdle

\* a run that starts from the counts of the report already on disk
GenerateSecurityReportAccumulating ==
    LET start == IF resultsKind = "report"
                 THEN [InitialReport EXCEPT !.summary = resultsFile[1].summary]
                 ELSE InitialReport
        report == Finish(ProcessFrom(ToolOrder, 1, start, inputs))
    IN  /\ loaded' = LoadAll(inputs)
        /\ exit' = IF report.raised THEN "raised" ELSE "ok"
        /\ resultsFile' = IF report.raised THEN resultsFile
                          ELSE <<[report EXCEPT !.timestamp = clock]>>
        /\ resultsKind' = IF report.raised THEN resultsKind ELSE "report"
        /\ UNCHANGED <<inputs, badges, clock, pure>>

\* one run of the script: the report, stamped with the time, replaces the result
\* file unless an exception ended the run
GenerateSecurityReport ==
    LET report == generate_security_report(inputs)
    IN  /\ loaded' = LoadAll(inputs)
        /\ exit' = IF report.raised THEN "raised" ELSE "ok"
        /\ resultsFile' = IF report.raised THEN resultsFile
                          ELSE <<[report EXCEPT !.timestamp = clock]>>
        /\ resultsKind' = IF report.raised THEN resultsKind ELSE "report"
        /\ UNCHANGED <<inputs, badges, clock, pure>>

Next == GenerateSecurityReport /\ UNCHANGED reruns

Spec == Init /\ [][Next]_vars

\* ------------------------------------------------- the scoring functions alone
\* the score computation and get_security_grade applied to arguments of their
\* whole domain, with no result file on disk
AllAbsent == [t \in Tools |-> FileVal("absent", 0, "missing", 0, FALSE)]

InitPure ==
    /\ inputs = AllAbsent
    /\ NothingOnDisk
    /\ pure \in {[PureIdle EXCEPT !.n1 = a, !.n2 = b, !.score = c, !.pc = "args"] :
                     a \in 0..MaxIssues, b \in 0..MaxIssues, c \in 0..MaxScore}

CallSecurityScore ==
    /\ pure.pc = "args"
    /\ pure' = [pure EXCEPT !.s1 = SecurityScore(pure.n1),
                            !.s2 = SecurityScore(pure.n2),
                            !.pc = "scored"]
    /\ UNCHANGED <<inputs, loaded, resultsKind, resultsFile, exit, badges, clock, reruns>>

CallGetSecurityGrade ==
    /\ pure.pc = "scored"
    /\ pure' = [pure EXCEPT !.grade = get_security_grade(pure.score), !.pc = "graded"]
    /\ UNCHANGED <<inputs, loaded, resultsKind, resultsFile, exit, badges, clock, reruns>>

NextPure == CallSecurityScore \/ CallGetSecurityGrade

SpecPure == InitPure /\ [][NextPure]_vars

\* ---------------------------------------------------------------- badges
\* largest issue count and coverage (in tenths of a percent) handed to the badge
\* functions on their own
MaxBadgeIssues == 120
MaxCoverageTenths == 1000

\* what a badge function returns: (svg, status, color, message)
BadgeResult(label, status, color, message, text_width) ==
    [svg |-> Svg(label, message, color, text_width),
     status |-> status, color |-> color, message |-> message]

\* the right segment one pixel per character wider
TextWidthSeven(message) == Len(message) * 7 + 20

\* len(message) * 6 + 20
TextWidth(message) == Len(message) * 6 + 20

\* the band of 90..94 left out
create_security_badge_no_green(score, grade, issues_count) ==
    LET message == ToString(score) \o "/100 (" \o grade \o ")"
        band == IF score >= 95 THEN <<"brightgreen", "excellent">>
                ELSE IF score >= 80 THEN <<"yellow", "fair">>
                ELSE IF score >= 70 THEN <<"orange", "poor">>
                ELSE <<"red", "critical">>
    IN  BadgeResult("security", band[2], band[1], message, TextWidth(message))

create_security_badge(score, grade, issues_count) ==
    LET message == ToString(score) \o "/100 (" \o grade \o ")"
        band == IF score >= 95 THEN <<"brightgreen", "excellent">>
                ELSE IF score >= 90 THEN <<"green", "good">>
                ELSE IF score >= 80 THEN <<"yellow", "fair">>
                ELSE IF score >= 70 THEN <<"orange", "poor">>
                ELSE <<"red", "critical">>
    IN  BadgeResult("security", band[2], band[1], message, TextWidth(message))

\* the yellow band closed one short
create_issues_badge_short(issues_count) ==
    LET message == IF issues_count = 0 THEN "0 issues"
                   ELSE ToString(issues_count) \o " issues"
        band == IF issues_count = 0 THEN <<"brightgreen", "clean">>
                ELSE IF issues_count < 2 THEN <<"yellow", "minor">>
                ELSE IF issues_count <= 5 THEN <<"orange", "moderate">>
                ELSE <<"red", "major">>
    IN  BadgeResult("issues", band[2], band[1], message, TextWidth(message))

create_issues_badge(issues_count) ==
    LET message == IF issues_count = 0 THEN "0 issues"
                   ELSE ToString(issues_count) \o " issues"
        band == IF issues_count = 0 THEN <<"brightgreen", "clean">>
                ELSE IF issues_count <= 2 THEN <<"yellow", "minor">>
                ELSE IF issues_count <= 5 THEN <<"orange", "moderate">>
                ELSE <<"red", "major">>
    IN  BadgeResult("issues", band[2], band[1], message, TextWidth(message))

\* f"{coverage_percent:.1f}%" of a coverage given in tenths of a percent
FormatPercent(tenths) == ToString(tenths \div 10) \o "." \o ToString(tenths % 10) \o "%"

\* coverage-badge.py; the coverage is None or a number of tenths of a percent
generate_coverage_badge(coverage_percent) ==
    LET c == coverage_percent.n
        band == IF coverage_percent.t = "null" THEN <<"lightgrey", "unknown">>
                ELSE IF c >= 90 * 10 THEN <<"brightgreen", "excellent">>
                ELSE IF c >= 80 * 10 THEN <<"green", "good">>
                ELSE IF c >= 70 * 10 THEN <<"yellow", "fair">>
                ELSE IF c >= 60 * 10 THEN <<"orange", "poor">>
                ELSE <<"red", "critical">>
        message == IF coverage_percent.t = "null" THEN "No data" ELSE FormatPercent(c)
    IN  BadgeResult("coverage", band[2], band[1], message, TextWidth(message))

\* ------------------------------------------------- the badge functions alone
Grades == {"A+", "A", "B", "C", "D", "F"}

NoResult == [svg |-> NoSvg, status |-> "", color |-> "", message |-> ""]

BadgeCall(fn, score, grade, count, cov) ==
    [fn |-> fn, score |-> score, grade |-> grade, count |-> count, cov |-> cov,
     ret |-> NoResult, pc |-> "args"]

InitBadge ==
    /\ inputs = AllAbsent
    /\ NothingOnDisk
    /\ pure \in {BadgeCall("security", sc, g, k, PyVal("null", 0)) :
                     sc \in 0..MaxScore, g \in Grades, k \in 0..1}
               \cup {BadgeCall("issues", 0, "", k, PyVal("null", 0)) : k \in 0..MaxBadgeIssues}
               \cup {BadgeCall("coverage", 0, "", 0, PyVal("num", c)) : c \in 0..MaxCoverageTenths}
               \cup {BadgeCall("coverage", 0, "", 0, PyVal("null", 0))}

Returns(fn, result) ==
    /\ pure.pc = "args"
    /\ pure.fn = fn
    /\ pure' = [pure EXCEPT !.ret = result, !.pc = "done"]
    /\ UNCHANGED <<inputs, loaded, resultsKind, resultsFile, exit, badges, clock, reruns>>

CallCreateSecurityBadge ==
    Returns("security", create_security_badge(pure.score, pure.grade, pure.count))

CallCreateIssuesBadge == Returns("issues", create_issues_badge(pure.count))

CallGenerateCoverageBadge == Returns("coverage", generate_coverage_badge(pure.cov))

NextBadge == CallCreateSecurityBadge \/ CallCreateIssuesBadge \/ CallGenerateCoverageBadge

SpecBadge == InitBadge /\ [][NextBadge]_vars

\* ------------------------------------------------- runs of the two scripts
\* how far the clock runs, and how many reruns are counted
MaxClock == 1
MaxReruns == 2

\* load_security_results: None for a missing or unparsable result file
load_security_results(kind) == IF kind \in {"absent", "malformed"} THEN "None" ELSE kind

\* `if not results`: None and the empty object are false
HasResults(results) == results = "report"

\* the two badges main writes from the loaded report
BadgesOf(results) ==
    LET score == results.security_score
        grade == results.security_grade
        issues_count == results.summary.total_issues
    IN  [score |-> create_security_badge(score, grade, issues_count).svg,
         issues |-> create_issues_badge(issues_count).svg]

\* main without its early return: the defaults of the .get calls are rendered
SecurityBadgeMainUnguarded ==
    /\ badges' = IF HasResults(load_security_results(resultsKind))
                 THEN BadgesOf(resultsFile[1])
                 ELSE [score |-> create_security_badge(0, "F", 0).svg,
                       issues |-> create_issues_badge(0).svg]
    /\ UNCHANGED <<inputs, loaded, resultsKind, resultsFile, exit, clock, pure, reruns>>

\* main of security-badge.py: returns at once without results, else writes both
\* badge files
SecurityBadgeMain ==
    /\ badges' = IF HasResults(load_security_results(resultsKind))
                 THEN BadgesOf(resultsFile[1])
                 ELSE badges
    /\ UNCHANGED <<inputs, loaded, resultsKind, resultsFile, exit, clock, pure, reruns>>

\* the scanner result files of the run sequences: checkov absent or with 1 or
\* MaxCount findings, trivy absent or with MaxLen findings, gosec unparsable,
\* semgrep absent or holding the number 1
SeqInputsOf(tool) ==
    CASE tool = "checkov" ->
             {FileVal("absent", 0, "missing", 0, FALSE), Obj("num", 1, FALSE),
              Obj("num", MaxCount, TRUE)}
      [] tool = "trivy" ->
             {FileVal("absent", 0, "missing", 0, FALSE), Obj("arr", MaxLen, FALSE)}
      [] tool = "gosec" ->
             {FileVal("malformed", 0, "missing", 0, FALSE)}
      [] tool = "semgrep" ->
             {FileVal("absent", 0, "missing", 0, FALSE),
              FileVal("num", 1, "missing", 0, FALSE)}

InitSeq ==
    /\ inputs \in [Tools -> CheckovInputs \cup ListInputs]
    /\ \A t \in Tools : inputs[t] \in SeqInputsOf(t)
    /\ loaded = [t \in Tools |-> None]
    /\ resultsKind \in {"absent", "malformed", "empty"}
    /\ resultsFile = <<>>
    /\ exit = "none"
    /\ badges = NoBadges
    /\ clock = 0
    /\ reruns = 0
    /\ pure = PureIdle

\* a run of the report script, counted
ReportRun ==
    /\ GenerateSecurityReport
    /\ reruns' = IF exit' # "ok" THEN 0
                 ELSE IF exit = "ok" /\ resultsKind = "report" /\ loaded = LoadAll(inputs)
                 THEN (IF reruns < MaxReruns THEN reruns + 1 ELSE reruns)
                 ELSE 1

\* a scanner replaces its result file
ScannerWrites ==
    \E t \in Tools : \E v \in SeqInputsOf(t) :
        /\ v # inputs[t]
        /\ inputs' = [inputs EXCEPT ![t] = v]
        /\ UNCHANGED <<loaded, resultsKind, resultsFile, exit, badges, clock, pure, reruns>>

\* time passes
Tick ==
    /\ clock < MaxClock
    /\ clock' = clock + 1
    /\ UNCHANGED <<inputs, loaded, resultsKind, resultsFile, exit, badges, pure, reruns>>

NextSeq == ReportRun \/ SecurityBadgeMain \/ ScannerWrites \/ Tick

SpecSeq == InitSeq /\ [][NextSeq]_vars

\* ---------------------------------------------------------------- properties
Written == exit = "ok" /\ resultsKind = "report" /\ Len(resultsFile) = 1

Report == resultsFile[1]

\* C1: a written report's security_score is the step function of its
\* total_issues alone: 0 -> 100, 1..2 -> 95, 3..5 -> 85, 6..10 -> 70, over 10 -> 50.
C1_ScoreBands ==
    Written =>
        LET n == Report.summary.total_issues
            s == Report.security_score
        IN  /\ n >= 0
            /\ (n = 0) => (s = 100)
            /\ (n \in 1..2) => (s = 95)
            /\ (n \in 3..5) => (s = 85)
            /\ (n \in 6..10) => (s = 70)
            /\ (n > 10) => (s = 50)

C1_Witness ==
    /\ Written
    /\ Report.summary.total_issues = 11
    /\ Report.security_score = 50

\* C2: the score never rises with the issue count: for issue counts n1 <= n2 the
\* score computed for n1 is at least the score computed for n2.
C2_Monotonic ==
    (pure.pc \in {"scored", "graded"} /\ pure.n1 <= pure.n2) => (pure.s1 >= pure.s2)

C2_Witness ==
    /\ pure.pc = "scored"
    /\ pure.n1 = 5 /\ pure.n2 = 6
    /\ pure.s1 = 85 /\ pure.s2 = 70

\* C3: for a score in 0..100 get_security_grade returns A+ from 95, A for 90..94,
\* B for 80..89, C for 70..79, D for 60..69 and F below 60; the score of 0 issues
\* is 100 and the grade of 100 is A+.
C3_GradeBands ==
    /\ (pure.pc = "graded") =>
           LET s == pure.score
               g == pure.grade
           IN  /\ (s >= 95) <=> (g = "A+")
               /\ (s \in 90..94) <=> (g = "A")
               /\ (s \in 80..89) <=> (g = "B")
               /\ (s \in 70..79) <=> (g = "C")
               /\ (s \in 60..69) <=> (g = "D")
               /\ (s < 60) <=> (g = "F")
               /\ (s = 100) => (g = "A+")
    /\ (pure.pc \in {"scored", "graded"} /\ pure.n1 = 0) => (pure.s1 = 100)

C3_Witness ==
    /\ pure.pc = "graded"
    /\ pure.score = 95 /\ pure.grade = "A+"
    /\ pure.n1 = 0 /\ pure.s1 = 100

\* the scenario's four files: checkov {failed: 2, passed: 48, skipped: 0},
\* no trivy file, gosec {Issues: []}, no semgrep file
ScenarioInputs ==
    [t \in Tools |->
        CASE t = "checkov" -> Obj("num", 2, TRUE)
          [] t = "gosec"   -> Obj("arr", 0, FALSE)
          [] OTHER         -> FileVal("absent", 0, "missing", 0, FALSE)]

ScenarioRan == inputs = ScenarioInputs /\ exit # "none"

\* C4 as stated: the scenario's report has total_issues 2, score 95, grade "A" and
\* the single recommendation "Medium priority issues found - address within 1 week".
C4_AsStated ==
    ScenarioRan =>
        /\ Written
        /\ Report.summary.total_issues = 2
        /\ Report.security_score = 95
        /\ Report.security_grade = "A"
        /\ Report.recommendations
              = <<"Medium priority issues found - address within 1 week">>

\* C4: the scenario's report has total_issues 2, score 95, grade "A+" and the
\* single recommendation that is the script's medium-priority advisory (the
\* clipboard sign U+1F4CB, a space, then the text of the claim).
C4_Scenario ==
    ScenarioRan =>
        /\ Written
        /\ Report.summary.total_issues = 2
        /\ Report.security_score = 95
        /\ Report.security_grade = "A+"
        /\ Report.recommendations = <<MediumText>>
        /\ Report.tools["checkov"].detail
              = <<PyVal("num", PassedValue), PyVal("num", SkippedValue)>>

C4_Witness ==
    /\ ScenarioRan
    /\ Written
    /\ Report.tools["checkov"].status = "completed"
    /\ Report.tools["gosec"].status = "completed"
    /\ Report.tools["trivy"].status = "failed"

\* the file exists and json.load accepts it
Parsed(f) == f.t \notin {"absent", "malformed"}

\* the extraction rule of a tool applied to a parsed payload: the `failed` field
\* for checkov, the length of the tool's list field for the others (0 without it)
Extracted(f) == IF f.t = "obj" /\ f.ft # "missing" THEN f.fn ELSE 0

\* C5: in a written report every tool whose file exists and parses to an object,
\* the empty object included, is recorded as completed with the issue count of
\* its extraction rule (so failed is recorded for no such file).
C5_ParsedIsCompleted ==
    Written =>
        \A t \in Tools :
            (Parsed(inputs[t]) /\ inputs[t].t = "obj") =>
                /\ Report.tools[t].status = "completed"
                /\ Report.tools[t].issues_found = Extracted(inputs[t])

\* C6: every run completes and writes a report, whatever the four files hold.
C6_NeverRaises == (exit # "none") => Written

\* a payload with which the tool completes with no finding
CleanPayload(t) == IF t = "checkov" THEN Obj("num", 0, FALSE) ELSE Obj("arr", 0, FALSE)

\* C7: in a written report a tool whose file is absent or unparsable is recorded as
\* failed with 0 issues, and summary, score and grade are those of the run in which
\* that tool completed with zero findings instead.
C7_FailedIsClean ==
    Written =>
        \A t \in Tools :
            ~Parsed(inputs[t]) =>
                LET clean == generate_security_report([inputs EXCEPT ![t] = CleanPayload(t)])
                IN  /\ Report.tools[t] = FailedEntry
                    /\ ~clean.raised
                    /\ clean.tools[t].status = "completed"
                    /\ clean.tools[t].issues_found = 0
                    /\ clean.summary = Report.summary
                    /\ clean.security_score = Report.security_score
                    /\ clean.security_grade = Report.security_grade

C7_Witness ==
    /\ Written
    /\ inputs["trivy"].t = "absent"
    /\ inputs["semgrep"].t = "malformed"
    /\ Report.tools["trivy"].status = "failed"
    /\ Report.summary.total_issues = 6

\* the orders in which the four tools can be processed
Orders == {o \in [1..Len(ToolOrder) -> Tools] : \A i, j \in 1..Len(ToolOrder) : o[i] = o[j] => i = j}

\* C8: processing the four tools in any order gives the summary of the written
\* report; a run that writes none writes none in any order.
C8_OrderIndependent ==
    /\ Written => \A o \in Orders :
                      LET r == ReportInOrder(o, inputs)
                      IN  ~r.raised /\ r.summary = Report.summary
    /\ (exit = "raised") => \A o \in Orders : ReportInOrder(o, inputs).raised

C8_Witness ==
    /\ Written
    /\ Report.tools["checkov"].issues_found = 2
    /\ Report.tools["gosec"].issues_found = 3
    /\ Report.tools["trivy"].issues_found = 1
    /\ Report.summary.medium_issues = 5

\* C9: in a written report each tool's whole count is in one bucket (checkov and
\* gosec medium, trivy high, semgrep low), so total_issues is the sum of the four
\* issues_found and the sum of the five buckets.
C9_Buckets ==
    Written =>
        LET s == Report.summary
            found(t) == Report.tools[t].issues_found
        IN  /\ s.high_issues = found("trivy")
            /\ s.medium_issues = found("checkov") + found("gosec")
            /\ s.low_issues = found("semgrep")
            /\ s.critical_issues = 0
            /\ s.info_issues = 0
            /\ s.total_issues = found("checkov") + found("trivy") + found("gosec") + found("semgrep")
            /\ s.total_issues = s.critical_issues + s.high_issues + s.medium_issues
                                  + s.low_issues + s.info_issues

C9_Witness ==
    /\ Written
    /\ \A t \in Tools : Report.tools[t].status = "completed" /\ Report.tools[t].issues_found > 0
    /\ Report.summary.total_issues = 7

BucketOrder == <<"critical", "high", "medium", "low", "info">>

BucketCount(s, b) ==
    CASE b = "critical" -> s.critical_issues
      [] b = "high"     -> s.high_issues
      [] b = "medium"   -> s.medium_issues
      [] b = "low"      -> s.low_issues
      [] b = "info"     -> s.info_issues

\* the advisory of a bucket (the script has none for info)
BucketText(b) ==
    CASE b = "critical" -> CriticalText
      [] b = "high"     -> HighText
      [] b = "medium"   -> MediumText
      [] b = "low"      -> LowText
      [] OTHER          -> "no advisory"

\* C10: the recommendations of a written report hold one entry per bucket whose
\* count is above zero and none for a bucket at zero, in the order critical, high,
\* medium, low, info.
C10_Recommendations ==
    Written =>
        LET s == Report.summary
            recs == Report.recommendations
            pos(b) == CHOOSE i \in 1..Len(BucketOrder) : BucketOrder[i] = b
            nonEmpty == {b \in {BucketOrder[i] : i \in 1..Len(BucketOrder)} :
                            BucketCount(s, b) > 0}
        IN  /\ Len(recs) = Cardinality(nonEmpty)
            /\ \A b \in nonEmpty : \E i \in 1..Len(recs) : recs[i] = BucketText(b)
            /\ \A i, j \in 1..Len(recs) :
                   i < j => \E b, c \in nonEmpty :
                               /\ recs[i] = BucketText(b) /\ recs[j] = BucketText(c)
                               /\ pos(b) < pos(c)

C10_Witness ==
    /\ Written
    /\ Report.summary.high_issues = 0
    /\ Report.summary.medium_issues > 0
    /\ Report.summary.low_issues > 0
    /\ Report.recommendations = <<MediumText, LowText>>

\* C16: a written report's (security_score, security_grade) is one of (100, A+),
\* (95, A+), (85, B), (70, C), (50, F), so the grades A and D are in no report,
\* and its critical and info buckets are 0.
C16_ReachablePairs ==
    Written =>
        /\ <<Report.security_score, Report.security_grade>>
              \in {<<100, "A+">>, <<95, "A+">>, <<85, "B">>, <<70, "C">>, <<50, "F">>}
        /\ Report.security_grade \notin {"A", "D"}
        /\ Report.summary.critical_issues = 0
        /\ Report.summary.info_issues = 0

C16_Witness ==
    /\ Written
    /\ Report.security_score = 70
    /\ Report.security_grade = "C"
    /\ Report.summary.high_issues > 0

Rendered == pure.pc = "done"

\* C12: every rendered badge (security score, issues, coverage) has a right segment
\* of len(message) * 6 + 20 and a total width of that plus 80: 6 more per
\* character, 148 for "0 issues" and 154 for "12 issues".
C12_BadgeWidth ==
    Rendered =>
        LET svg == pure.ret.svg
            chars == Len(pure.ret.message)
        IN  /\ svg.message = pure.ret.message
            /\ svg.text_width = chars * 6 + 20
            /\ svg.width = svg.text_width + 80
            /\ svg.width = 100 + 6 * chars
            /\ (pure.ret.message = "0 issues") => (chars = 8 /\ svg.width = 148)
            /\ (pure.ret.message = "12 issues") => (chars = 9 /\ svg.width = 154)
            /\ (pure.fn = "issues" /\ pure.count < 10) => (svg.width = 148)
            /\ (pure.fn = "issues" /\ pure.count \in 10..99) => (svg.width = 154)
            /\ (pure.fn = "security" /\ pure.score \in 10..99 /\ pure.grade = "B")
                  => (svg.width = 160)
            /\ (pure.fn = "coverage" /\ pure.cov.t = "num" /\ pure.cov.n \in 100..999)
                  => (svg.width = 130)

C12_Witness ==
    /\ Rendered
    /\ pure.fn = "issues"
    /\ pure.count = 12
    /\ pure.ret.message = "12 issues"
    /\ pure.ret.svg.width = 154

SecurityRendered == Rendered /\ pure.fn = "security"

\* C13 as stated: the score badge is brightgreen from 95, green for 80..94, yellow
\* for 70..79, orange for 60..69 and red below 60 and only there.
C13_AsStated ==
    SecurityRendered =>
        LET sc == pure.score
            color == pure.ret.color
        IN  /\ (sc >= 95) => (color = "brightgreen")
            /\ (sc \in 80..94) => (color = "green")
            /\ (sc \in 70..79) => (color = "yellow")
            /\ (sc \in 60..69) => (color = "orange")
            /\ (sc < 60) <=> (color = "red")

\* C13: the score badge is brightgreen from 95, green for 90..94, yellow for
\* 80..89, orange for 70..79 and red below 70 and only there.
C13_ColorBands ==
    SecurityRendered =>
        LET sc == pure.score
            color == pure.ret.color
        IN  /\ (sc >= 95) => (color = "brightgreen")
            /\ (sc \in 90..94) => (color = "green")
            /\ (sc \in 80..89) => (color = "yellow")
            /\ (sc \in 70..79) => (color = "orange")
            /\ (sc < 70) <=> (color = "red")

C13_Witness ==
    /\ SecurityRendered
    /\ pure.score = 85
    /\ pure.ret.color = "yellow"

\* C14: the issues badge of a count n is brightgreen for 0, yellow for 1..2, orange
\* for 3..5 and red above 5, and its message is the count followed by " issues".
C14_IssuesBadge ==
    (Rendered /\ pure.fn = "issues") =>
        LET n == pure.count
            color == pure.ret.color
        IN  /\ (n = 0) => (color = "brightgreen")
            /\ (n \in 1..2) => (color = "yellow")
            /\ (n \in 3..5) => (color = "orange")
            /\ (n > 5) => (color = "red")
            /\ pure.ret.message = ToString(n) \o " issues"
            /\ pure.ret.svg.color = color
            /\ pure.ret.svg.label = "issues"

C14_Witness ==
    /\ Rendered
    /\ pure.fn = "issues"
    /\ pure.count = 2
    /\ pure.ret.color = "yellow"
    /\ pure.ret.message = "2 issues"

\* a report without its timestamp
SansTimestamp(r) == [r EXCEPT !.timestamp = 0]

\* C11: a report run on the payloads the report on disk was written from writes
\* a report equal to it in every field but the timestamp: the file is replaced,
\* and no count, tool entry or recommendation grows from run to run.
C11_RerunIdentical ==
    [][(GenerateSecurityReport /\ Written /\ loaded = LoadAll(inputs)) =>
          /\ exit' = "ok"
          /\ resultsKind' = "report"
          /\ Len(resultsFile') = 1
          /\ SansTimestamp(resultsFile'[1]) = SansTimestamp(resultsFile[1])
          /\ resultsFile'[1].timestamp = clock]_vars

C11_Witness ==
    /\ Written
    /\ reruns >= 2
    /\ Report.timestamp > 0
    /\ Report.summary.total_issues > 0
    /\ Len(Report.recommendations) > 0

\* C15: a badge run writes the two badge files only when the result file holds a
\* report, and then they show the score and grade, and the total_issues, of that
\* report (the last one written); otherwise the run changes no file.
C15_BadgeRun ==
    [][SecurityBadgeMain =>
          IF resultsKind = "report"
          THEN /\ badges'.score.exists /\ badges'.issues.exists
               /\ badges'.score.label = "security"
               /\ badges'.score.message
                     = ToString(Report.security_score) \o "/100 ("
                       \o Report.security_grade \o ")"
               /\ badges'.issues.label = "issues"
               /\ badges'.issues.message
                     = ToString(Report.summary.total_issues) \o " issues"
               /\ UNCHANGED <<inputs, resultsKind, resultsFile>>
          ELSE UNCHANGED <<inputs, resultsKind, resultsFile, badges>>]_vars

C15_Witness ==
    /\ resultsKind = "report"
    /\ badges.score.exists
    /\ badges.score.message = "85/100 (B)"
    /\ badges.issues.message = "3 issues"
    /\ Report.security_score = 85
    /\ Report.timestamp > 0
    /\ exit = "raised"

====
